---------------------------- MODULE Spec2Model ----------------------------
(***************************************************************************)
(* Model of create-knowledge-monthly-report: the scrape-and-report         *)
(* pipeline (src/src/index.ts main, scrapePage and createArticleExtractor  *)
(* in src/unnamed/part_000, makeReport and generateContributionGraph in    *)
(* src/src/makeReport.ts, the date helpers of src/src/date.ts).            *)
(*                                                                         *)
(* A JavaScript string is modelled as the sequence of its characters, each *)
(* character a one-character TLA+ string; null is the value Null.            *)
(***************************************************************************)
EXTENDS Integers, Sequences, FiniteSets, TLC

VARIABLES
    pc,               \* position of the run
    targetMonth,      \* --month option, text
    template,         \* content of the template file, text
    templateReadable, \* whether readFileSync(template) succeeds
    url,              \* BASE_URL, text
    shouldMarkdownLink,
    latestCells,      \* raw cells of the latest listing (page state)
    popularCells,     \* raw cells of the popular listing (page state)
    latestArticles,   \* ArticleMeta[] of the latest listing
    popularArticles,  \* ArticleMeta[] of the popular listing
    pending,          \* indexes of raw cells whose extraction has not resolved
    report,           \* outcome of makeReport / outputReport
    browser,          \* "none" | "open" | "closed"
    page,             \* "none" | "open"
    env,              \* what the site and the file system answer in this run
    thrown,           \* the exception in flight, "" when there is none
    fetched,          \* the listings whose cells have been located
    errorLog,         \* errors written by console.error / the runtime
    screenshots,      \* number of screenshots captured
    exitCode          \* Running, or the status the process ended with

\* What a run is given: the options, the environment, the pages' content.
inputs == <<targetMonth, template, templateReadable, url, shouldMarkdownLink,
            latestCells, popularCells, env>>

\* The process around the scrape: browser, exception, log, exit status.
process == <<browser, page, thrown, errorLog, screenshots, exitCode>>

vars == <<pc, inputs, latestArticles, popularArticles, pending, fetched,
          report, process>>

----------------------------------------------------------------------------
(* Text helpers (JavaScript String built-ins).                             *)

Null == <<"null">>

\* The grave accent character (the module's lexer admits none in a string).
Grave == "grave"

Digits == <<"0", "1", "2", "3", "4", "5", "6", "7", "8", "9">>

IsDigit(c) == \E i \in 1..10 : Digits[i] = c

DigitVal(c) == (CHOOSE i \in 1..10 : Digits[i] = c) - 1

IsSpace(c) == c \in {" ", "\n", "\t"}

\* Not-a-Number, the result of a failed numeric coercion.
NaN == 0 - 1

RECURSIVE NatText(_)
NatText(n) ==
    IF n < 10 THEN <<Digits[n + 1]>>
    ELSE NatText(n \div 10) \o <<Digits[(n % 10) + 1]>>

\* `${n}` for a number n.
NumberText(n) == IF n = NaN THEN <<"N", "a", "N">> ELSE NatText(n)

RECURSIVE PadStart(_, _)
\* String(n).padStart(w, '0'), as date-fns addLeadingZeros does.
PadStart(n, w) ==
    LET t == NatText(n)
    IN  IF Len(t) >= w THEN t ELSE <<"0">> \o PadStart(n, w - 1)

RECURSIVE DigitsValue(_)
DigitsValue(s) ==
    IF s = <<>> THEN 0
    ELSE 10 * DigitsValue(SubSeq(s, 1, Len(s) - 1)) + DigitVal(s[Len(s)])

RECURSIVE TrimStart(_)
TrimStart(s) ==
    IF s # <<>> /\ IsSpace(Head(s)) THEN TrimStart(Tail(s)) ELSE s

RECURSIVE TrimEnd(_)
TrimEnd(s) ==
    IF s # <<>> /\ IsSpace(s[Len(s)])
    THEN TrimEnd(SubSeq(s, 1, Len(s) - 1)) ELSE s

\* String.prototype.trim
Trim(s) == TrimEnd(TrimStart(s))

\* String.prototype.slice(from) with from >= 0
SliceFrom(s, from) == SubSeq(s, from + 1, Len(s))

\* Unary plus on a string of the alphabet modelled here: blank text is 0,
\* a run of decimal digits (surrounding white space allowed) its value,
\* anything else NaN.
ToNumber(s) ==
    LET t == Trim(s)
    IN  IF t = <<>> THEN 0
        ELSE IF \A i \in 1..Len(t) : IsDigit(t[i]) THEN DigitsValue(t)
        ELSE NaN

\* Whether `search` occurs in `s` at index i (1-based).
MatchesAt(s, search, i) ==
    /\ i + Len(search) - 1 <= Len(s)
    /\ \A k \in 1..Len(search) : s[i + k - 1] = search[k]

\* String.prototype.indexOf, 1-based; 0 when absent.
IndexOf(s, search) ==
    IF \E i \in 1..(Len(s) + 1) : MatchesAt(s, search, i)
    THEN CHOOSE i \in 1..(Len(s) + 1) :
            /\ MatchesAt(s, search, i)
            /\ \A j \in 1..(i - 1) : ~MatchesAt(s, search, j)
    ELSE 0

\* String.prototype.indexOf(search, from), 1-based; 0 when absent.
IndexOfFrom(s, search, from) ==
    IF \E i \in from..(Len(s) + 1) : MatchesAt(s, search, i)
    THEN CHOOSE i \in from..(Len(s) + 1) :
            /\ MatchesAt(s, search, i)
            /\ \A j \in from..(i - 1) : ~MatchesAt(s, search, j)
    ELSE 0

RECURSIVE GetSubstitution(_, _, _, _)
\* ECMAScript GetSubstitution for a string pattern (no captures): in the
\* replacement text, $$ is a dollar sign, $& the matched text, $ followed
\* by a grave accent the part of the subject before the match and $
\* followed by an apostrophe the part after it; any other character stands
\* for itself.
GetSubstitution(repl, matched, before, after) ==
    LET i == IndexOf(repl, <<"$">>)
    IN  IF i = 0 THEN repl
        ELSE IF i < Len(repl) /\ repl[i + 1] \in {"$", "&", Grave, "'"}
        THEN SubSeq(repl, 1, i - 1)
             \o (CASE repl[i + 1] = "$" -> <<"$">>
                   [] repl[i + 1] = "&" -> matched
                   [] repl[i + 1] = Grave -> before
                   [] OTHER -> after)
             \o GetSubstitution(SubSeq(repl, i + 2, Len(repl)), matched,
                                before, after)
        ELSE SubSeq(repl, 1, i)
             \o GetSubstitution(SubSeq(repl, i + 1, Len(repl)), matched,
                                before, after)

\* String.prototype.replace(search, repl) with a string pattern: the first
\* occurrence only.
Replace(s, search, repl) ==
    LET i == IndexOf(s, search)
    IN  IF i = 0 THEN s
        ELSE SubSeq(s, 1, i - 1)
             \o GetSubstitution(repl, search, SubSeq(s, 1, i - 1),
                                SubSeq(s, i + Len(search), Len(s)))
             \o SubSeq(s, i + Len(search), Len(s))

RECURSIVE ReplaceAllFrom(_, _, _, _)
ReplaceAllFrom(s, search, repl, from) ==
    LET i == IndexOfFrom(s, search, from)
    IN  IF i = 0 THEN SubSeq(s, from, Len(s))
        ELSE SubSeq(s, from, i - 1)
             \o GetSubstitution(repl, search, SubSeq(s, 1, i - 1),
                                SubSeq(s, i + Len(search), Len(s)))
             \o ReplaceAllFrom(s, search, repl, i + Len(search))

\* String.prototype.replaceAll(search, repl) with a non-empty string pattern.
ReplaceAll(s, search, repl) == ReplaceAllFrom(s, search, repl, 1)

RECURSIVE Join(_, _)
\* Array.prototype.join
Join(parts, sep) ==
    IF parts = <<>> THEN <<>>
    ELSE IF Len(parts) = 1 THEN parts[1]
    ELSE parts[1] \o sep \o Join(Tail(parts), sep)

----------------------------------------------------------------------------
(* Dates: src/src/date.ts over date-fns parse / format / isValid.          *)

InvalidDate == [valid |-> FALSE, year |-> 0, month |-> 0, day |-> 0,
                hour |-> 0, minute |-> 0]

\* The formats of DateFormat used for parsing, as date-fns tokenizes them.
\* A numeric token of n letters reads one to n digits; H reads an hour of
\* one or two digits below 24; anything else is a literal character.
Fmt_yyyyMM ==
    << [kind |-> "num", field |-> "year", max |-> 4],
       [kind |-> "num", field |-> "month", max |-> 2] >>

Fmt_timestamp ==
    << [kind |-> "num", field |-> "year", max |-> 4],
       [kind |-> "lit", ch |-> "/"],
       [kind |-> "num", field |-> "month", max |-> 2],
       [kind |-> "lit", ch |-> "/"],
       [kind |-> "num", field |-> "day", max |-> 2],
       [kind |-> "lit", ch |-> " "],
       [kind |-> "hour23"],
       [kind |-> "lit", ch |-> ":"],
       [kind |-> "num", field |-> "minute", max |-> 2] >>

RECURSIVE LeadingDigits(_, _)
\* Length of the longest run of digits at the start of s, at most max.
LeadingDigits(s, max) ==
    IF max = 0 \/ s = <<>> \/ ~IsDigit(Head(s)) THEN 0
    ELSE 1 + LeadingDigits(Tail(s), max - 1)

\* Length of the match of /^(2[0-3]|[01]?\d)/ at the start of s.
Hour23Len(s) ==
    IF s = <<>> \/ ~IsDigit(Head(s)) THEN 0
    ELSE IF Len(s) >= 2 /\ IsDigit(s[2])
            /\ (Head(s) \in {"0", "1"} \/ (Head(s) = "2" /\ DigitVal(s[2]) <= 3))
    THEN 2
    ELSE 1

IsLeapYear(y) == (y % 400 = 0) \/ (y % 4 = 0 /\ y % 100 # 0)

DaysInMonth(y, m) ==
    IF m = 2 THEN (IF IsLeapYear(y) THEN 29 ELSE 28)
    ELSE IF m \in {4, 6, 9, 11} THEN 30 ELSE 31

RECURSIVE ParseFrom(_, _, _)
\* date-fns parse: consume the tokens of the format from the text; the
\* text must be used up (trailing white space aside).
ParseFrom(s, fmt, acc) ==
    IF fmt = <<>>
    THEN (IF \A i \in 1..Len(s) : IsSpace(s[i]) THEN acc ELSE InvalidDate)
    ELSE LET t == Head(fmt)
         IN  IF t.kind = "lit"
             THEN (IF s # <<>> /\ Head(s) = t.ch
                   THEN ParseFrom(Tail(s), Tail(fmt), acc)
                   ELSE InvalidDate)
             ELSE LET n == IF t.kind = "hour23" THEN Hour23Len(s)
                           ELSE LeadingDigits(s, t.max)
                      f == IF t.kind = "hour23" THEN "hour" ELSE t.field
                  IN  IF n = 0 THEN InvalidDate
                      ELSE ParseFrom(SubSeq(s, n + 1, Len(s)), Tail(fmt),
                                     [acc EXCEPT ![f] = DigitsValue(SubSeq(s, 1, n))])

\* The validate step of the date-fns parsers.
ValidFields(d) ==
    /\ d.valid
    /\ d.year > 0
    /\ d.month \in 1..12
    /\ d.day \in 1..DaysInMonth(d.year, d.month)
    /\ d.hour \in 0..23
    /\ d.minute \in 0..59

\* parseDate(s, f) = parse(s, f, new Date()): fields the format does not
\* name are the first day of the month at 0:00.
parseDate(s, fmt) ==
    LET d == ParseFrom(s, fmt, [valid |-> TRUE, year |-> 0, month |-> 0,
                                day |-> 1, hour |-> 0, minute |-> 0])
    IN  IF ValidFields(d) THEN d ELSE InvalidDate

isValid(d) == d.valid

\* What format() throws for an Invalid Date.
RangeError == <<"RangeError: Invalid time value">>

MonthNames ==
    << <<"J", "a", "n", "u", "a", "r", "y">>,
       <<"F", "e", "b", "r", "u", "a", "r", "y">>,
       <<"M", "a", "r", "c", "h">>,
       <<"A", "p", "r", "i", "l">>,
       <<"M", "a", "y">>,
       <<"J", "u", "n", "e">>,
       <<"J", "u", "l", "y">>,
       <<"A", "u", "g", "u", "s", "t">>,
       <<"S", "e", "p", "t", "e", "m", "b", "e", "r">>,
       <<"O", "c", "t", "o", "b", "e", "r">>,
       <<"N", "o", "v", "e", "m", "b", "e", "r">>,
       <<"D", "e", "c", "e", "m", "b", "e", "r">> >>

\* formatDate(d, f) = format(d, f), for the output formats "yyyyMM",
\* "yyyy nen MM gatsu" (the year and month ideographs of the source's
\* format, each one character, written here nen and gatsu) and
\* "MMMM yyyy"; the value RangeError stands for the exception.
formatDate(d, f) ==
    IF ~isValid(d) THEN RangeError
    ELSE CASE f = "yyyyMM" -> PadStart(d.year, 4) \o PadStart(d.month, 2)
           [] f = "yyyy nen MM gatsu" ->
                PadStart(d.year, 4) \o <<"nen">> \o PadStart(d.month, 2) \o <<"gatsu">>
           [] f = "MMMM yyyy" ->
                MonthNames[d.month] \o <<" ">> \o PadStart(d.year, 4)

changeMonthFormat(s, from, to) == formatDate(parseDate(s, from), to)

\* Date.prototype.getDay of a valid date: 0 is Sunday.
getDay(d) ==
    LET t == <<0, 3, 2, 5, 0, 3, 5, 1, 4, 6, 2, 4>>
        y == IF d.month < 3 THEN d.year - 1 ELSE d.year
    IN  (y + (y \div 4) - (y \div 100) + (y \div 400) + t[d.month] + d.day) % 7

getDate(d) == d.day

startOfMonth(d) == [d EXCEPT !.day = 1, !.hour = 0, !.minute = 0]

lastDayOfMonth(d) ==
    [d EXCEPT !.day = DaysInMonth(d.year, d.month), !.hour = 0, !.minute = 0]

\* compareAsc of two valid dates: -1, 0 or 1.
DateKey(d) ==
    ((((d.year * 12 + d.month) * 32 + d.day) * 24 + d.hour) * 60) + d.minute

compareAsc(a, b) ==
    IF DateKey(a) < DateKey(b) THEN 0 - 1
    ELSE IF DateKey(a) > DateKey(b) THEN 1 ELSE 0

----------------------------------------------------------------------------
(* Report composition: src/src/makeReport.ts.                              *)

\* The five placeholder tokens of the template.
KnowledgeUrlToken ==
    <<"@", "k", "n", "o", "w", "l", "e", "d", "g", "e", "U", "r", "l", "@">>

TargetMonthToken ==
    <<"@", "t", "a", "r", "g", "e", "t", "M", "o", "n", "t", "h", "@">>

TargetMonthArticlesToken ==
    <<"@", "t", "a", "r", "g", "e", "t", "M", "o", "n", "t", "h",
      "A", "r", "t", "i", "c", "l", "e", "s", "@">>

PopularArticlesToken ==
    <<"@", "p", "o", "p", "u", "l", "a", "r",
      "A", "r", "t", "i", "c", "l", "e", "s", "@">>

ContributionGraphToken ==
    <<"@", "c", "o", "n", "t", "r", "i", "b", "u", "t", "i", "o", "n",
      "G", "r", "a", "p", "h", "@">>

\* One line (markdown) or two lines (plain) of an article; "middot" is the
\* katakana middle dot that opens a markdown line.
ArticleLine(a, md) ==
    IF md
    THEN <<"middot", " ", "[", "#">> \o NumberText(a.no) \o <<" ">> \o a.title
         \o <<"]", "(">> \o a.url \o <<")", " ", "b", "y", " ">> \o a.author
    ELSE Join(<< <<"#">> \o NumberText(a.no) \o <<" ">> \o a.title
                 \o <<" ", "b", "y", " ">> \o a.author,
                 a.url >>, <<"\n">>)

generateArticlesText(articles, md) ==
    Join([k \in 1..Len(articles) |-> ArticleLine(articles[k], md)], <<"\n">>)

WEEKDAYS ==
    << <<"S", "u", "n">>, <<"M", "o", "n">>, <<"T", "u", "e">>,
       <<"W", "e", "d">>, <<"T", "h", "u">>, <<"F", "r", "i">>,
       <<"S", "a", "t">> >>

\* Array.from({ length: 7 }) and Array.from({ length: 5 }).
GridRows == 7

GridCols == 5

\* One step of the reduce that builds the day histogram:
\* acc.set(day, acc.get(day) ?? 0 + 1), where ?? binds looser than +.
SetPoint(acc, day) ==
    [d \in (DOMAIN acc) \cup {day} |->
        IF d = day THEN (IF day \in DOMAIN acc THEN acc[day] ELSE 0 + 1)
        ELSE acc[d]]

RECURSIVE ReducePoints(_, _)
ReducePoints(days, acc) ==
    IF days = <<>> THEN acc
    ELSE ReducePoints(Tail(days), SetPoint(acc, Head(days)))

\* The Map of day of month to its value, as a function on the days set.
ContributionPoints(articles) ==
    ReducePoints([k \in 1..Len(articles) |->
                     getDate(parseDate(articles[k].postedDate, Fmt_timestamp))],
                 <<>>)

\* Mutant: the days run along the rows, five to a row.
GridDayAlongRows(i, j, firstWeekday) == 5 * i + j - firstWeekday + 1

\* The day that row i, column j (0-based) of the grid stands for.
GridDay(i, j, firstWeekday) == 7 * j - firstWeekday + i + 1

\* The 7 x 5 array of day numbers for the month of a valid targetMonth text.
GridDays(month) ==
    LET startDate == startOfMonth(parseDate(month, Fmt_yyyyMM))
    IN  [i \in 0..(GridRows - 1) |->
            [j \in 0..(GridCols - 1) |-> GridDay(i, j, getDay(startDate))]]

\* Mutant: days past the end of the month are not marked "-".
CellMarkUnbounded(day, lastDay, points) ==
    IF day < 1 THEN "-"
    ELSE IF (IF day \in DOMAIN points THEN points[day] ELSE 0) > 0 THEN "filled"
    ELSE "empty"

\* The mark of one day: "-" outside the month, "filled" (the black square)
\* when the histogram holds a positive value, else "empty" (the white one).
CellMark(day, lastDay, points) ==
    IF day < 1 \/ lastDay < day THEN "-"
    ELSE IF (IF day \in DOMAIN points THEN points[day] ELSE 0) > 0 THEN "filled"
    ELSE "empty"

GridCells(month, articles) ==
    LET endDate == lastDayOfMonth(parseDate(month, Fmt_yyyyMM))
        points == ContributionPoints(articles)
        days == GridDays(month)
    IN  [i \in 0..(GridRows - 1) |->
            [j \in 0..(GridCols - 1) |->
                CellMark(days[i][j], getDate(endDate), points)]]

GraphTitle(month, articles) ==
    NumberText(Len(articles))
    \o <<" ", "c", "o", "n", "t", "r", "i", "b", "u", "t", "i", "o", "n", "s",
         " ", "i", "n", " ">>
    \o changeMonthFormat(month, Fmt_yyyyMM, "MMMM yyyy")

GraphRow(cells, i) ==
    Join(<<WEEKDAYS[i + 1]>> \o [j \in 1..GridCols |-> <<cells[i][j - 1]>>],
         <<" ">>)

\* generateContributionGraph of makeReport.ts, for a valid month text.
generateContributionGraph(month, articles) ==
    LET cells == GridCells(month, articles)
        metrics == [r \in 1..GridRows |-> GraphRow(cells, r - 1)]
        fence == <<Grave, Grave, Grave>>
    IN  Join(<<GraphTitle(month, articles), fence>> \o metrics \o <<fence>>,
             <<"\n">>)

\* The comparator handed to sort in makeReport.
ComparePosted(a, b) ==
    compareAsc(parseDate(a.postedDate, Fmt_timestamp),
               parseDate(b.postedDate, Fmt_timestamp))

RECURSIVE InsertSorted(_, _)
\* a goes after every element that does not compare greater than it.
InsertSorted(sorted, a) ==
    IF sorted = <<>> THEN <<a>>
    ELSE IF ComparePosted(Head(sorted), a) > 0 THEN <<a>> \o sorted
    ELSE <<Head(sorted)>> \o InsertSorted(Tail(sorted), a)

\* Mutant: the filtered list is left in listing order.
Unsorted(s) == s

RECURSIVE SortByPostedDate(_)
\* Array.prototype.sort (stable) with ComparePosted.
SortByPostedDate(s) ==
    IF s = <<>> THEN <<>>
    ELSE InsertSorted(SortByPostedDate(SubSeq(s, 1, Len(s) - 1)), s[Len(s)])

\* Whether the filter callback of makeReport throws on some element:
\* format() of the Invalid Date parsed from a postedDate.
FilterThrows(latest) ==
    \E k \in 1..Len(latest) :
        changeMonthFormat(latest[k].postedDate, Fmt_timestamp, "yyyyMM") = RangeError

\* Mutant: the latest listing is sorted without being filtered.
TargetMonthArticlesUnfiltered(month, latest) == SortByPostedDate(latest)

\* latestArticles.filter(...).sort(...), when the filter does not throw.
TargetMonthArticles(month, latest) ==
    LET InMonth(a) ==
            month = changeMonthFormat(a.postedDate, Fmt_timestamp, "yyyyMM")
    IN  SortByPostedDate(SelectSeq(latest, InMonth))

TargetMonthArticleNumbers(monthArticles) ==
    {monthArticles[k].no : k \in 1..Len(monthArticles)}

\* .slice(0, 5)
TopCount == 5

\* Mutant: the popular listing cut to five with nothing excluded.
Top5WithoutExclusion(monthArticles, popular) ==
    SubSeq(popular, 1, IF Len(popular) < TopCount THEN Len(popular) ELSE TopCount)

\* Mutant: the popular listing cut to five before the exclusion.
Top5SliceBeforeFilter(monthArticles, popular) ==
    LET numbers == {monthArticles[k].no : k \in 1..Len(monthArticles)}
        NotOfMonth(a) == a.no \notin numbers
    IN  SelectSeq(SubSeq(popular, 1, IF Len(popular) < TopCount
                                     THEN Len(popular) ELSE TopCount),
                  NotOfMonth)

\* popularArticles.filter(no not in the month's numbers).slice(0, 5)
Top5PopularArticles(monthArticles, popular) ==
    LET numbers == TargetMonthArticleNumbers(monthArticles)
        NotOfMonth(a) == a.no \notin numbers
        rest == SelectSeq(popular, NotOfMonth)
    IN  SubSeq(rest, 1, IF Len(rest) < TopCount THEN Len(rest) ELSE TopCount)

\* The five (token, replacement text) pairs, in the order makeReport applies
\* them.
Replacements(month, baseUrl, monthArticles, top5, md) ==
    << [token |-> KnowledgeUrlToken, text |-> baseUrl],
       [token |-> TargetMonthToken,
        text |-> changeMonthFormat(month, Fmt_yyyyMM, "yyyy nen MM gatsu")],
       [token |-> TargetMonthArticlesToken,
        text |-> generateArticlesText(monthArticles, md)],
       [token |-> PopularArticlesToken,
        text |-> generateArticlesText(top5, md)],
       [token |-> ContributionGraphToken,
        text |-> generateContributionGraph(month, monthArticles)] >>

RECURSIVE ApplyReplacements(_, _, _)
\* content.replaceAll(...).replaceAll(...)..., the pairs taken in `order`.
ApplyReplacements(content, reps, order) ==
    IF order = <<>> THEN content
    ELSE ApplyReplacements(
            ReplaceAll(content, reps[Head(order)].token, reps[Head(order)].text),
            reps, Tail(order))

SourceOrder == <<1, 2, 3, 4, 5>>

Thrown(err) ==
    [status |-> "thrown", error |-> err, targetMonthArticles |-> <<>>,
     top5PopularArticles |-> <<>>, content |-> <<>>]

\* makeReport: the report text, or the exception it ends with.
makeReport(month, tpl, readable, baseUrl, latest, popular, md) ==
    IF FilterThrows(latest) THEN Thrown("RangeError")
    ELSE IF ~readable THEN Thrown("ENOENT")
    ELSE IF ~isValid(parseDate(month, Fmt_yyyyMM)) THEN Thrown("RangeError")
    ELSE LET monthArticles == TargetMonthArticles(month, latest)
             top5 == Top5PopularArticles(monthArticles, popular)
         IN  [status |-> "returned", error |-> "",
              targetMonthArticles |-> monthArticles,
              top5PopularArticles |-> top5,
              content |-> ApplyReplacements(tpl,
                              Replacements(month, baseUrl, monthArticles, top5, md),
                              SourceOrder)]

----------------------------------------------------------------------------
(* Extraction of one raw cell: createArticleExtractor,                     *)
(* src/unnamed/part_000 (scrape.ts).                                       *)

\* Mutant: the read is used as it is, without the fallback.
WithoutFallback(v) == v

\* v ?? ''
OrEmpty(v) == IF v = Null THEN <<>> ELSE v

RECURSIVE Split(_, _)
\* String.prototype.split on a one-character separator.
Split(s, ch) ==
    IF \E i \in 1..Len(s) : s[i] = ch
    THEN LET i == CHOOSE i \in 1..Len(s) :
                    s[i] = ch /\ \A j \in 1..(i - 1) : s[j] # ch
         IN  <<SubSeq(s, 1, i - 1)>> \o Split(SubSeq(s, i + 1, Len(s)), ch)
    ELSE <<s>>

\* new URL(u).pathname for a text scheme://host[/path][?query]: the part
\* from the first slash after the host up to the query, "/" when there is
\* none.
Pathname(u) ==
    LET sep == IndexOf(u, <<":", "/", "/">>)
        rest == SubSeq(u, sep + 3, Len(u))
        noQuery == Split(rest, "?")[1]
        slash == IndexOf(noQuery, <<"/">>)
    IN  IF slash = 0 THEN <<"/">> ELSE SubSeq(noQuery, slash, Len(noQuery))

RECURSIVE NormalizeSegments(_, _, _)
\* The segment walk of node:path normalize: empty and "." segments are
\* dropped, ".." removes the segment before it (and stays, on a relative
\* path, when there is none).
NormalizeSegments(segs, out, absolute) ==
    IF segs = <<>> THEN out
    ELSE LET g == Head(segs)
         IN  IF g = <<>> \/ g = <<".">>
             THEN NormalizeSegments(Tail(segs), out, absolute)
             ELSE IF g = <<".", ".">>
             THEN (IF out # <<>> /\ out[Len(out)] # <<".", ".">>
                   THEN NormalizeSegments(Tail(segs), SubSeq(out, 1, Len(out) - 1),
                                          absolute)
                   ELSE IF absolute
                   THEN NormalizeSegments(Tail(segs), out, absolute)
                   ELSE NormalizeSegments(Tail(segs), out \o <<g>>, absolute))
             ELSE NormalizeSegments(Tail(segs), out \o <<g>>, absolute)

\* node:path normalize (posix).
Normalize(path) ==
    IF path = <<>> THEN <<".">>
    ELSE LET absolute == Head(path) = "/"
             trailing == path[Len(path)] = "/"
             body == Join(NormalizeSegments(Split(path, "/"), <<>>, absolute),
                          <<"/">>)
             inner == IF body = <<>> /\ ~absolute THEN <<".">> ELSE body
             tailed == IF inner # <<>> /\ trailing /\ inner # <<".">>
                       THEN inner \o <<"/">>
                       ELSE IF inner = <<".">> /\ trailing THEN <<".", "/">>
                       ELSE inner
         IN  IF absolute THEN <<"/">> \o tailed ELSE tailed

\* node:path join: the non-empty arguments joined by "/" and normalized.
PathJoin(parts) ==
    LET NonEmpty(x) == x # <<>>
        kept == SelectSeq(parts, NonEmpty)
    IN  IF kept = <<>> THEN <<".">> ELSE Normalize(Join(kept, <<"/">>))

\* Length of the match of /\d{4}\/\d{2}\/\d{2} \d{1,2}:\d{2}/ that starts
\* at index i of s; 0 when there is none.
TimestampLenAt(s, i) ==
    LET D(k) == i + k <= Len(s) /\ IsDigit(s[i + k])
        C(k, ch) == i + k <= Len(s) /\ s[i + k] = ch
        date == /\ D(0) /\ D(1) /\ D(2) /\ D(3) /\ C(4, "/")
                /\ D(5) /\ D(6) /\ C(7, "/") /\ D(8) /\ D(9) /\ C(10, " ")
    IN  IF date /\ D(11) /\ D(12) /\ C(13, ":") /\ D(14) /\ D(15) THEN 16
        ELSE IF date /\ D(11) /\ C(12, ":") /\ D(13) /\ D(14) THEN 15
        ELSE 0

\* s.match(/.../)?.[0] ?? '': the first match, or the empty text.
MatchTimestamp(s) ==
    IF \E i \in 1..Len(s) : TimestampLenAt(s, i) > 0
    THEN LET i == CHOOSE i \in 1..Len(s) :
                    /\ TimestampLenAt(s, i) > 0
                    /\ \A j \in 1..(i - 1) : TimestampLenAt(s, j) = 0
         IN  SubSeq(s, i, i + TimestampLenAt(s, i) - 1)
    ELSE <<>>

\* The effective article URL.
ArticleUrl(baseUrl, hrefText) ==
    LET subDirectory == IF Pathname(baseUrl) = <<"/">> THEN <<>>
                        ELSE Pathname(baseUrl)
    IN  PathJoin(<<baseUrl>>
                 \o Split(Split(Replace(OrEmpty(hrefText), subDirectory, <<>>),
                                "?")[1], "/"))

\* no = +(numberText ?? '').trim().slice(1)
ArticleNo(numberText) == ToNumber(SliceFrom(Trim(OrEmpty(numberText)), 1))

\* title = (titleText ?? '').replace(`#${no}`, '').trim()
ArticleTitle(titleText, no) ==
    Trim(Replace(OrEmpty(titleText), <<"#">> \o NumberText(no), <<>>))

\* The ArticleMeta record that createArticleExtractor(url) resolves with
\* for a raw cell whose five reads returned c.href, c.number, c.title,
\* c.author and c.info.
createArticleExtractor(baseUrl, c) ==
    LET no == ArticleNo(c.number)
    IN  [url |-> ArticleUrl(baseUrl, c.href),
         no |-> no,
         title |-> ArticleTitle(c.title, no),
         author |-> OrEmpty(c.author),
         postedDate |-> MatchTimestamp(OrEmpty(c.info))]

----------------------------------------------------------------------------
(* Inputs: the raw cells a listing page can hold, the options of a run.    *)

\* A raw cell of the listing, as the five reads of the extractor see it:
\* the relative link, " #<no> ", "#<no> <title>", the author and the info
\* line "<title> <yyyy/MM/dd H:mm> ni" (no timestamp when stamp is empty).
RawCell(no, title, author, stamp) ==
    [href |-> <<"/", "k", "b", "/", "v", "/">> \o NatText(no) \o <<"?", "o">>,
     number |-> <<" ", "#">> \o NatText(no) \o <<" ">>,
     title |-> <<"#">> \o NatText(no) \o <<" ">> \o title,
     author |-> author,
     info |-> title \o <<" ">> \o stamp \o <<" ", "n", "i">>]

\* The text yyyy/MM/dd H:mm of the listing's info line.
Stamp(y, m, d, h, mi) ==
    PadStart(y, 4) \o <<"/">> \o PadStart(m, 2) \o <<"/">> \o PadStart(d, 2)
    \o <<" ">> \o NatText(h) \o <<":">> \o PadStart(mi, 2)

\* The --month text yyyyMM.
MonthText(y, m) == PadStart(y, 4) \o PadStart(m, 2)

\* BASE_URL of the runs modelled: a site under the sub-directory /kb.
BaseUrl == <<"h", ":", "/", "/", "k", "/", "k", "b">>

\* Sequences over S of length at most n.
SeqsUpTo(S, n) == UNION {[1..k -> S] : k \in 0..n}

NoReport ==
    [status |-> "none", error |-> "", targetMonthArticles |-> <<>>,
     top5PopularArticles |-> <<>>, content |-> <<>>]

Running == 0 - 1

\* An environment in which every step outside the pipeline succeeds.
DefaultEnv ==
    [launchOk |-> TRUE, newPageOk |-> TRUE, titleOk |-> TRUE, urlOk |-> TRUE,
     screenshotOk |-> TRUE, isDryRun |-> FALSE]

\* The process before main has launched anything.
ProcessIdle ==
    /\ browser = "none"
    /\ page = "none"
    /\ thrown = ""
    /\ errorLog = <<>>
    /\ screenshots = 0
    /\ exitCode = Running

----------------------------------------------------------------------------
(* The pipeline: both listings extracted, then makeReport.                 *)

\* Promise.all(locators.map(createArticleExtractor(url))): element k is the
\* record of raw cell k.
ExtractAll(baseUrl, cells) ==
    [k \in 1..Len(cells) |-> createArticleExtractor(baseUrl, cells[k])]

ExtractLatest ==
    /\ pc = "fetched"
    /\ latestArticles' = ExtractAll(url, latestCells)
    /\ fetched' = fetched \cup {"latest"}
    /\ pc' = "latestExtracted"
    /\ UNCHANGED <<inputs, popularArticles, pending, report, process>>

ExtractPopular ==
    /\ pc = "latestExtracted"
    /\ popularArticles' = ExtractAll(url, popularCells)
    /\ fetched' = fetched \cup {"popular"}
    /\ pc' = "extracted"
    /\ UNCHANGED <<inputs, latestArticles, pending, report, process>>

Compose ==
    /\ pc = "extracted"
    /\ report' = makeReport(targetMonth, template, templateReadable, url,
                            latestArticles, popularArticles, shouldMarkdownLink)
    /\ pc' = "composed"
    /\ UNCHANGED <<inputs, latestArticles, popularArticles, pending, fetched,
                   process>>

PipelineNext == ExtractLatest \/ ExtractPopular \/ Compose

\* What every pipeline run starts from, its inputs aside.
PipelineStart ==
    /\ pc = "fetched"
    /\ latestArticles = <<>>
    /\ popularArticles = <<>>
    /\ pending = {}
    /\ fetched = {}
    /\ report = NoReport
    /\ env = DefaultEnv
    /\ ProcessIdle

----------------------------------------------------------------------------
(* SpecReport: listings of varying length and content, one template.       *)

MaxLatest == 2

MaxPopular == 6

\* Latest cells: two posted in March 2025, one in February, one whose info
\* line holds no timestamp.
LatestPool ==
    { RawCell(1, <<"a">>, <<"x">>, Stamp(2025, 3, 5, 8, 9)),
      RawCell(2, <<"b">>, <<"y">>, Stamp(2025, 3, 2, 12, 30)),
      RawCell(3, <<"c">>, <<"x">>, Stamp(2025, 2, 10, 9, 0)),
      RawCell(4, <<"d">>, <<"y">>, <<>>) }

PopularPool ==
    { RawCell(1, <<"a">>, <<"x">>, Stamp(2025, 3, 5, 8, 9)),
      RawCell(3, <<"c">>, <<"x">>, Stamp(2025, 2, 10, 9, 0)) }

\* A template that names each placeholder once.
ReportTemplate ==
    KnowledgeUrlToken \o <<" ">> \o TargetMonthToken \o <<"\n">>
    \o TargetMonthArticlesToken \o <<"\n">> \o PopularArticlesToken
    \o <<"\n">> \o ContributionGraphToken

InitReport ==
    /\ targetMonth = MonthText(2025, 3)
    /\ template = ReportTemplate
    /\ templateReadable = TRUE
    /\ url = BaseUrl
    /\ shouldMarkdownLink = FALSE
    /\ latestCells \in SeqsUpTo(LatestPool, MaxLatest)
    /\ popularCells \in SeqsUpTo(PopularPool, MaxPopular)
    /\ PipelineStart

SpecReport == InitReport /\ [][PipelineNext]_vars

Composed == pc = "composed" /\ report.status = "returned"

Numbers(articles) == {articles[k].no : k \in 1..Len(articles)}

\* C1: after makeReport returns, no article number is both in the list
\* rendered for the target month and in the list rendered as popular.
C1_NoNumberInBothLists ==
    Composed =>
        Numbers(report.targetMonthArticles)
            \cap Numbers(report.top5PopularArticles) = {}

\* C1 witness: a report whose month list and popular list are both
\* non-empty, from a popular listing that holds an article of the month.
C1_Witness ==
    /\ Composed
    /\ report.targetMonthArticles # <<>>
    /\ report.top5PopularArticles # <<>>
    /\ Numbers(report.targetMonthArticles) \cap Numbers(popularArticles) # {}

\* Positions of popularArticles whose number is not one of the month's.
KeptPositions ==
    {i \in 1..Len(popularArticles) :
        popularArticles[i].no \notin Numbers(report.targetMonthArticles)}

\* The k-th smallest kept position.
KthKept(k) ==
    CHOOSE i \in KeptPositions : Cardinality({j \in KeptPositions : j <= i}) = k

\* C2: the popular list has min(5, n) entries, n the number of popular
\* articles left after the month's numbers are removed, and entry k is the
\* k-th of those in the listing's order (exclusion before truncation).
C2_PopularIsFirstFiveKept ==
    Composed =>
        LET n == Cardinality(KeptPositions)
            top == report.top5PopularArticles
        IN  /\ Len(top) <= 5
            /\ Len(top) = (IF n < 5 THEN n ELSE 5)
            /\ \A k \in 1..Len(top) : top[k] = popularArticles[KthKept(k)]

\* C2 witness: five articles are listed, the fifth from beyond position
\* five of the listing because an excluded article stands before it.
C2_Witness ==
    /\ Composed
    /\ Len(report.top5PopularArticles) = 5
    /\ KthKept(5) > 5
    /\ \E i \in 1..Len(popularArticles) :
          i \notin KeptPositions /\ i < KthKept(5)

\* C3: a latest listing with a cell that fell back to postedDate = '' still
\* ends in a report text.
C3_FallbackCellStillReports ==
    (pc = "composed" /\ \E k \in 1..Len(latestArticles) :
                            latestArticles[k].postedDate = <<>>)
        => report.status = "returned"

----------------------------------------------------------------------------
(* SpecGraph: every month of a few years, an article posted on its first,  *)
(* on a middle or on its last day.                                         *)

\* The year of the README's example month.
FirstYear == 2024

YearCount == 3

Months == {<<y, m>> : y \in FirstYear..(FirstYear + YearCount - 1), m \in 1..12}

PostedDays(ym) == {1, 15, DaysInMonth(ym[1], ym[2])}

MaxGraphCells == 2

\* The latest listing of a month: cell k is article k, posted on one of the
\* days of PostedDays at 8:09.
GraphListings(ym) ==
    UNION { { [k \in 1..n |->
                 RawCell(k, <<"a">>, <<"x">>, Stamp(ym[1], ym[2], days[k], 8, 9))] :
              days \in [1..n -> PostedDays(ym)] } : n \in 0..MaxGraphCells }

InitGraph ==
    /\ \E ym \in Months :
          /\ targetMonth = MonthText(ym[1], ym[2])
          /\ latestCells \in GraphListings(ym)
    /\ template = ReportTemplate
    /\ templateReadable = TRUE
    /\ url = BaseUrl
    /\ shouldMarkdownLink \in BOOLEAN
    /\ popularCells = <<>>
    /\ PipelineStart

SpecGraph == InitGraph /\ [][PipelineNext]_vars

\* The days of the month that some cell of the grid stands for.
ShownDays ==
    {GridDays(targetMonth)[i][j] : i \in 0..(GridRows - 1), j \in 0..(GridCols - 1)}

\* The days whose cell carries the filled mark.
FilledDays ==
    {GridDays(targetMonth)[i][j] :
        <<i, j>> \in {c \in (0..(GridRows - 1)) \X (0..(GridCols - 1)) :
            GridCells(targetMonth, report.targetMonthArticles)[c[1]][c[2]]
                = "filled"}}

LastDay == getDate(lastDayOfMonth(parseDate(targetMonth, Fmt_yyyyMM)))

\* C7: the grid of 7 rows and 5 columns has a cell for every day of the
\* target month, and the day an article was posted on is shown filled.
C7_GridCoversEveryDay ==
    Composed =>
        /\ \A d \in 1..LastDay : d \in ShownDays
        /\ \A k \in 1..Len(report.targetMonthArticles) :
              getDate(parseDate(report.targetMonthArticles[k].postedDate,
                                Fmt_timestamp)) \in FilledDays

----------------------------------------------------------------------------
(* SpecTemplate: templates put together from placeholder tokens and plain  *)
(* text, articles whose titles hold plain text, a dollar pattern or a      *)
(* placeholder token.                                                      *)

MaxTemplatePieces == 2

Tokens ==
    <<KnowledgeUrlToken, TargetMonthToken, TargetMonthArticlesToken,
      PopularArticlesToken, ContributionGraphToken>>

TemplatePieces == {Tokens[i] : i \in 1..5} \cup {<<"x">>}

\* Article titles as an author may write them.
TitlePool == {<<"a">>, <<"$", Grave>>, PopularArticlesToken}

InitTemplate ==
    /\ targetMonth = MonthText(2025, 3)
    /\ template \in {Join(ps, <<>>) : ps \in SeqsUpTo(TemplatePieces, MaxTemplatePieces)}
    /\ templateReadable = TRUE
    /\ url = BaseUrl
    /\ shouldMarkdownLink \in BOOLEAN
    /\ latestCells \in
          SeqsUpTo({RawCell(1, t, <<"x">>, Stamp(2025, 3, 5, 8, 9)) : t \in TitlePool}, 1)
    /\ popularCells \in
          SeqsUpTo({RawCell(3, <<"c">>, <<"y">>, Stamp(2025, 2, 10, 9, 0))}, 1)
    /\ PipelineStart

SpecTemplate == InitTemplate /\ [][PipelineNext]_vars

\* The five replacements of the report in the current state.
ReportReplacements ==
    Replacements(targetMonth, url, report.targetMonthArticles,
                 report.top5PopularArticles, shouldMarkdownLink)

\* The index of the token that tpl starts with; 0 when it starts with none.
TokenAt(tpl) ==
    IF \E i \in 1..5 : MatchesAt(tpl, Tokens[i], 1)
    THEN CHOOSE i \in 1..5 : MatchesAt(tpl, Tokens[i], 1)
    ELSE 0

RECURSIVE EachOccurrenceReplaced(_, _)
\* tpl with every occurrence of token i replaced by texts[i], all else kept.
EachOccurrenceReplaced(tpl, texts) ==
    IF tpl = <<>> THEN <<>>
    ELSE LET i == TokenAt(tpl)
         IN  IF i = 0
             THEN <<Head(tpl)>> \o EachOccurrenceReplaced(Tail(tpl), texts)
             ELSE texts[i]
                  \o EachOccurrenceReplaced(
                        SubSeq(tpl, Len(Tokens[i]) + 1, Len(tpl)), texts)

\* C8: the report is the template with every occurrence of each placeholder
\* token replaced, all occurrences of one token by the same text (the text
\* the token is turned into when it stands alone).
C8_EveryOccurrenceSameText ==
    Composed =>
        report.content =
            EachOccurrenceReplaced(template,
                [i \in 1..5 |->
                    ApplyReplacements(Tokens[i], ReportReplacements, SourceOrder)])

\* C9: the five replacements applied in any order give the report text
\* that makeReport returns.
C9_OrderIndependent ==
    Composed =>
        \A order \in Permutations(1..5) :
            ApplyReplacements(template, ReportReplacements,
                              [k \in 1..5 |-> order[k]]) = report.content

----------------------------------------------------------------------------
(* SpecExtract: one raw cell, each of its five reads absent or present,    *)
(* well-formed or not.                                                     *)

RootUrl == <<"h", ":", "/", "/", "k", "/">>

\* The href of a cell: absent, the path of an article under the base path
\* with a query, a path that holds the base path further in, a path that
\* holds it twice.
HrefTexts ==
    {Null, <<"/", "k", "b", "/", "v", "/", "7", "?", "o">>,
     <<"/", "v", "/", "k", "b", "/", "7">>,
     <<"/", "k", "b", "/", "k", "b", "/", "7">>}

NumberTexts == {Null, <<" ", "#", "7", " ">>, <<"#", "x">>}

TitleTexts == {Null, <<"#", "7", " ", "t">>, <<"t">>}

AuthorTexts == {Null, <<"A">>}

InfoTexts ==
    {Null, <<"t", " ">> \o Stamp(2025, 3, 5, 8, 9) \o <<" ", "n", "i">>,
     <<"t", " ", "n", "i">>}

InitExtract ==
    /\ targetMonth = MonthText(2025, 3)
    /\ template = ReportTemplate
    /\ templateReadable = TRUE
    /\ url \in {BaseUrl, RootUrl}
    /\ shouldMarkdownLink = FALSE
    /\ \E h \in HrefTexts, n \in NumberTexts, t \in TitleTexts,
          a \in AuthorTexts, i \in InfoTexts :
          latestCells = <<[href |-> h, number |-> n, title |-> t,
                           author |-> a, info |-> i]>>
    /\ popularCells = <<>>
    /\ PipelineStart

SpecExtract == InitExtract /\ [][PipelineNext]_vars

HasNoDigit(text) == \A i \in 1..Len(text) : ~IsDigit(text[i])

\* C10: whatever reads of a raw cell are absent, the extractor returns an
\* ArticleMeta record: author '' when the author is absent, no 0 and title
\* '' when identifier and title are absent, postedDate '' when the info
\* line holds no timestamp.
C10_ExtractionFallsBack ==
    pc # "fetched" =>
        /\ Len(latestArticles) = Len(latestCells)
        /\ \A k \in 1..Len(latestCells) :
              LET c == latestCells[k]
                  a == latestArticles[k]
              IN  /\ DOMAIN a = {"no", "title", "url", "author", "postedDate"}
                  /\ a.author # Null /\ a.title # Null /\ a.postedDate # Null
                  /\ c.author = Null => a.author = <<>>
                  /\ (c.number = Null /\ c.title = Null)
                        => (a.no = 0 /\ a.title = <<>>)
                  /\ (c.info = Null \/ HasNoDigit(c.info))
                        => a.postedDate = <<>>

\* C10 witness: a raw cell all of whose reads are absent has been extracted.
C10_Witness ==
    /\ pc = "latestExtracted"
    /\ Len(latestArticles) = 1
    /\ latestCells[1] = [href |-> Null, number |-> Null, title |-> Null,
                         author |-> Null, info |-> Null]
    /\ latestArticles[1].no = 0
    /\ latestArticles[1].author = <<>>
    /\ latestArticles[1].postedDate = <<>>

----------------------------------------------------------------------------
(* main of src/src/index.ts, with scrapePage and outputReport.  The        *)
(* runtime ends the process with status 1 on a rejection of main() that    *)
(* nothing handles, after printing the error.                              *)

\* generateContributionGraph of index.ts: the title and the seven rows.
IndexContributionGraph(month, articles) ==
    LET cells == GridCells(month, articles)
    IN  Join(<<GraphTitle(month, articles)>>
             \o [r \in 1..GridRows |-> GraphRow(cells, r - 1)], <<"\n">>)

\* The replaceAll chain of outputReport.
IndexReplacements(month, baseUrl, monthArticles, popular) ==
    << [token |-> KnowledgeUrlToken, text |-> baseUrl],
       [token |-> TargetMonthToken,
        text |-> changeMonthFormat(month, Fmt_yyyyMM, "yyyy nen MM gatsu")],
       [token |-> TargetMonthArticlesToken,
        text |-> generateArticlesText(monthArticles, FALSE)],
       [token |-> PopularArticlesToken,
        text |-> generateArticlesText(
                    SubSeq(popular, 1, IF Len(popular) < TopCount
                                       THEN Len(popular) ELSE TopCount), FALSE)],
       [token |-> ContributionGraphToken,
        text |-> IndexContributionGraph(month, monthArticles)] >>

\* outputReport of index.ts: the report printed (dry run) or written, or
\* the exception it ends with.
outputReport(isDryRun, month, tpl, readable, baseUrl, latest, popular) ==
    IF FilterThrows(latest) THEN Thrown("RangeError: Invalid time value")
    ELSE IF ~readable THEN Thrown("ENOENT: no such file or directory")
    ELSE IF ~isValid(parseDate(month, Fmt_yyyyMM))
    THEN Thrown("RangeError: Invalid time value")
    ELSE LET InMonth(a) ==
                 month = changeMonthFormat(a.postedDate, Fmt_timestamp, "yyyyMM")
             monthArticles == SelectSeq(latest, InMonth)
         IN  [status |-> IF isDryRun THEN "printed" ELSE "written",
              error |-> "",
              targetMonthArticles |-> monthArticles,
              top5PopularArticles |->
                  SubSeq(popular, 1, IF Len(popular) < TopCount
                                     THEN Len(popular) ELSE TopCount),
              content |-> ApplyReplacements(tpl,
                              IndexReplacements(month, baseUrl, monthArticles,
                                                popular),
                              SourceOrder)]

\* Mutant: any month text is let through.
AnyMonthAccepted(month) == TRUE

\* The check of the --month option at the head of main.
MonthAccepted(month) == isValid(parseDate(month, Fmt_yyyyMM))

\* Mutant: the title of the top page is not looked at.
TitleUnchecked(e) == TRUE

\* topPageTitle.match(/Knowledge/)
TopPageTitleMatches(e) == e.titleOk

\* page.url().match(/.*open.knowledge\/list/)
ListUrlMatches(e) == e.urlOk

\* A promise of Promise.all that has not resolved yet.
Unresolved ==
    [url |-> Null, no |-> 0, title |-> Null, author |-> Null,
     postedDate |-> Null]

\* main() rejects and nothing handles it: the runtime prints the error and
\* the process ends with status 1.
UnhandledRejection(err) ==
    /\ errorLog' = Append(errorLog, err)
    /\ exitCode' = 1
    /\ pc' = "exited"

ValidateMonth ==
    /\ pc = "start"
    /\ IF MonthAccepted(targetMonth)
       THEN /\ pc' = "launch"
            /\ UNCHANGED <<errorLog, exitCode>>
       ELSE UnhandledRejection("Specify the month in the format yyyyMM.")
    /\ UNCHANGED <<inputs, latestArticles, popularArticles, pending, fetched,
                   report, browser, page, thrown, screenshots>>

Launch ==
    /\ pc = "launch"
    /\ IF env.launchOk
       THEN /\ browser' = "open"
            /\ pc' = "newPage"
            /\ UNCHANGED <<errorLog, exitCode>>
       ELSE /\ UnhandledRejection("browserType.launch failed")
            /\ UNCHANGED browser
    /\ UNCHANGED <<inputs, latestArticles, popularArticles, pending, fetched,
                   report, page, thrown, screenshots>>

NewPage ==
    /\ pc = "newPage"
    /\ IF env.newPageOk
       THEN /\ page' = "open"
            /\ pc' = "gotoTop"
            /\ UNCHANGED <<errorLog, exitCode>>
       ELSE /\ UnhandledRejection("browser.newPage failed")
            /\ UNCHANGED page
    /\ UNCHANGED <<inputs, latestArticles, popularArticles, pending, fetched,
                   report, browser, thrown, screenshots>>

\* scrapePage: the top page and the check of its title.
GotoTop ==
    /\ pc = "gotoTop"
    /\ IF TopPageTitleMatches(env)
       THEN pc' = "login" /\ UNCHANGED thrown
       ELSE pc' = "catch" /\ thrown' = "Failed to transition to top page."
    /\ UNCHANGED <<inputs, latestArticles, popularArticles, pending, fetched,
                   report, browser, page, errorLog, screenshots, exitCode>>

\* scrapePage: sign in and the check of the URL reached.
Login ==
    /\ pc = "login"
    /\ IF ListUrlMatches(env)
       THEN pc' = "locateLatest" /\ UNCHANGED thrown
       ELSE pc' = "catch"
            /\ thrown' = "Failed to transition to article list page."
    /\ UNCHANGED <<inputs, latestArticles, popularArticles, pending, fetched,
                   report, browser, page, errorLog, screenshots, exitCode>>

\* scrapePage: the cells of the latest listing, one extraction started for
\* each.
LocateLatest ==
    /\ pc = "locateLatest"
    /\ latestArticles' = [k \in 1..Len(latestCells) |-> Unresolved]
    /\ pending' = 1..Len(latestCells)
    /\ fetched' = fetched \cup {"latest"}
    /\ pc' = "extractLatest"
    /\ UNCHANGED <<inputs, popularArticles, report, process>>

\* Mutant: the record of an extraction is stored at the first free place,
\* in the order the extractions complete.
ResolveLatestInCompletionOrder(k) ==
    /\ pc = "extractLatest"
    /\ k \in pending
    /\ LET slot == CHOOSE i \in 1..Len(latestArticles) :
                       /\ latestArticles[i] = Unresolved
                       /\ \A j \in 1..(i - 1) : latestArticles[j] # Unresolved
       IN  latestArticles' =
              [latestArticles EXCEPT
                  ![slot] = createArticleExtractor(url, latestCells[k])]
    /\ pending' = pending \ {k}
    /\ UNCHANGED <<pc, inputs, popularArticles, fetched, report, process>>

\* One extraction of the latest listing resolves.
ResolveLatest(k) ==
    /\ pc = "extractLatest"
    /\ k \in pending
    /\ latestArticles' =
          [latestArticles EXCEPT ![k] = createArticleExtractor(url, latestCells[k])]
    /\ pending' = pending \ {k}
    /\ UNCHANGED <<pc, inputs, popularArticles, fetched, report, process>>

\* scrapePage: Promise.all of the latest listing has resolved; the popular
\* page is opened and its cells located.
LocatePopular ==
    /\ pc = "extractLatest"
    /\ pending = {}
    /\ popularArticles' = [k \in 1..Len(popularCells) |-> Unresolved]
    /\ pending' = 1..Len(popularCells)
    /\ fetched' = fetched \cup {"popular"}
    /\ pc' = "extractPopular"
    /\ UNCHANGED <<inputs, latestArticles, report, process>>

ResolvePopular(k) ==
    /\ pc = "extractPopular"
    /\ k \in pending
    /\ popularArticles' =
          [popularArticles EXCEPT ![k] = createArticleExtractor(url, popularCells[k])]
    /\ pending' = pending \ {k}
    /\ UNCHANGED <<pc, inputs, latestArticles, fetched, report, process>>

\* scrapePage returns; main calls outputReport.
OutputReport ==
    /\ pc = "extractPopular"
    /\ pending = {}
    /\ report' = outputReport(env.isDryRun, targetMonth, template,
                              templateReadable, url, latestArticles,
                              popularArticles)
    /\ IF report'.status = "thrown"
       THEN pc' = "catch" /\ thrown' = report'.error
       ELSE pc' = "finally" /\ UNCHANGED thrown
    /\ UNCHANGED <<inputs, latestArticles, popularArticles, pending, fetched,
                   browser, page, errorLog, screenshots, exitCode>>

\* Mutant: the catch block goes to the screenshot without console.error.
CatchWithoutLog ==
    /\ pc = "catch"
    /\ thrown' = ""
    /\ pc' = "screenshot"
    /\ UNCHANGED <<inputs, latestArticles, popularArticles, pending, fetched,
                   report, browser, page, errorLog, screenshots, exitCode>>

\* catch (error): console.error(error).
CatchLog ==
    /\ pc = "catch"
    /\ errorLog' = Append(errorLog, thrown)
    /\ thrown' = ""
    /\ pc' = "screenshot"
    /\ UNCHANGED <<inputs, latestArticles, popularArticles, pending, fetched,
                   report, browser, page, screenshots, exitCode>>

\* catch (error): await page.screenshot(...); when it rejects, the catch
\* block ends with that exception and control passes to finally.
Screenshot ==
    /\ pc = "screenshot"
    /\ IF env.screenshotOk
       THEN /\ screenshots' = screenshots + 1
            /\ pc' = "processExit"
            /\ UNCHANGED thrown
       ELSE /\ thrown' = "page.screenshot failed"
            /\ pc' = "finally"
            /\ UNCHANGED screenshots
    /\ UNCHANGED <<inputs, latestArticles, popularArticles, pending, fetched,
                   report, browser, page, errorLog, exitCode>>

\* catch (error): process.exit(1) ends the process there and then; the
\* finally block is not run.
ProcessExit ==
    /\ pc = "processExit"
    /\ exitCode' = 1
    /\ pc' = "exited"
    /\ UNCHANGED <<inputs, latestArticles, popularArticles, pending, fetched,
                   report, browser, page, thrown, errorLog, screenshots>>

\* finally: await browser.close(); then main() resolves and the process
\* ends with status 0, or rejects with the exception in flight.
Finally ==
    /\ pc = "finally"
    /\ browser' = "closed"
    /\ IF thrown = ""
       THEN /\ exitCode' = 0
            /\ pc' = "exited"
            /\ UNCHANGED errorLog
       ELSE UnhandledRejection(thrown)
    /\ UNCHANGED <<inputs, latestArticles, popularArticles, pending, fetched,
                   report, page, thrown, screenshots>>

MainNext ==
    \/ ValidateMonth
    \/ Launch
    \/ NewPage
    \/ GotoTop
    \/ Login
    \/ LocateLatest
    \/ \E k \in pending : ResolveLatest(k)
    \/ LocatePopular
    \/ \E k \in pending : ResolvePopular(k)
    \/ OutputReport
    \/ CatchLog
    \/ Screenshot
    \/ ProcessExit
    \/ Finally

MaxMainCells == 2

\* The cells a listing page of the run holds: one posted in March 2025, one
\* whose info line holds no timestamp.
MainCells ==
    { RawCell(1, <<"a">>, <<"x">>, Stamp(2025, 3, 5, 8, 9)),
      RawCell(2, <<"b">>, <<"y">>, <<>>) }

\* The popular page of the run: empty, one cell, two cells in either order.
PopularListings ==
    LET c == RawCell(3, <<"c">>, <<"y">>, Stamp(2025, 2, 10, 9, 0))
        d == RawCell(1, <<"a">>, <<"x">>, Stamp(2025, 3, 5, 8, 9))
    IN  {<<>>, <<c>>, <<c, d>>, <<d, c>>}

\* --month texts: a month, a thirteenth month, a year alone, a word.
MonthOptions ==
    { MonthText(2025, 3), MonthText(2025, 13), NatText(2025), <<"M", "a", "r">> }

InitMain ==
    /\ pc = "start"
    /\ targetMonth \in MonthOptions
    /\ template = ReportTemplate
    /\ templateReadable \in BOOLEAN
    /\ url = BaseUrl
    /\ shouldMarkdownLink = FALSE
    /\ latestCells \in SeqsUpTo(MainCells, MaxMainCells)
    /\ popularCells \in PopularListings
    /\ env \in [launchOk : BOOLEAN, newPageOk : BOOLEAN, titleOk : BOOLEAN,
                urlOk : BOOLEAN, screenshotOk : BOOLEAN, isDryRun : BOOLEAN]
    /\ latestArticles = <<>>
    /\ popularArticles = <<>>
    /\ pending = {}
    /\ fetched = {}
    /\ report = NoReport
    /\ ProcessIdle

SpecMain == InitMain /\ [][MainNext]_vars

\* The run has produced its report.
Reported == report.status \in {"written", "printed"}

\* The --month text parses to a valid date under yyyyMM.
MonthValid == isValid(parseDate(targetMonth, Fmt_yyyyMM))

\* C4: on every exit of a run that launched the browser and opened its
\* page (success, a failed check in scrapePage, an error in outputReport),
\* the browser has been closed, an error that ended the run has been logged,
\* and the exit status is not zero unless the report was produced.
C4_ClosedLoggedNonZeroOnExit ==
    (pc = "exited" /\ browser # "none" /\ page = "open") =>
        /\ browser = "closed"
        /\ ~Reported => (errorLog # <<>> /\ exitCode # 0)

\* C5: a --month text that does not parse under yyyyMM ends the run with
\* the explicit error and status 1, with no browser launched, no page
\* opened, no listing fetched and no report step taken.
C5_InvalidMonthFailsBeforeLaunch ==
    ~MonthValid =>
        /\ pc \in {"start", "exited"}
        /\ browser = "none" /\ page = "none"
        /\ fetched = {} /\ latestArticles = <<>> /\ popularArticles = <<>>
        /\ report = NoReport
        /\ pc = "exited" =>
              /\ exitCode = 1
              /\ errorLog = <<"Specify the month in the format yyyyMM.">>

C5_Witness ==
    /\ ~MonthValid
    /\ pc = "exited"
    /\ exitCode = 1
    /\ browser = "none"

\* C6: outputReport is invoked only after both listings have been fetched
\* and every extraction has resolved; when the title check of the top page
\* or the URL check after sign-in fails, it is never invoked and the run
\* ends with a status other than zero.
C6_ReportOnlyAfterBothListings ==
    /\ report # NoReport =>
          /\ fetched = {"latest", "popular"}
          /\ pending = {}
          /\ \A k \in 1..Len(latestArticles) : latestArticles[k] # Unresolved
          /\ \A k \in 1..Len(popularArticles) : popularArticles[k] # Unresolved
          /\ Len(latestArticles) = Len(latestCells)
          /\ Len(popularArticles) = Len(popularCells)
    /\ (~env.titleOk \/ ~env.urlOk) =>
          /\ report = NoReport
          /\ pc = "exited" => exitCode # 0

C6_Witness ==
    /\ pc = "exited"
    /\ page = "open"
    /\ env.titleOk /\ ~env.urlOk
    /\ report = NoReport
    /\ exitCode = 1

----------------------------------------------------------------------------
(* The contribution graph as rendered text.                                *)

\* The text put in place of @contributionGraph@ in the current state.
GraphText == ReportReplacements[5].text

GraphLines == Split(GraphText, "\n")

Fence == <<Grave, Grave, Grave>>

\* The lines from..(from + 6) of the graph are the seven rows of the grid.
RowsAt(lines, from) ==
    \A r \in 1..GridRows :
        lines[from + r - 1] =
            GraphRow(GridCells(targetMonth, report.targetMonthArticles), r - 1)

\* C11: the graph text is the title line and the seven rows; with
\* shouldMarkdownLink the rows stand between two fence lines, without it
\* the text holds no fence line at all.
C11_FencedOnlyInMarkdownMode ==
    Composed =>
        /\ GraphLines[1] = GraphTitle(targetMonth, report.targetMonthArticles)
        /\ IF shouldMarkdownLink
           THEN /\ Len(GraphLines) = GridRows + 3
                /\ GraphLines[2] = Fence
                /\ RowsAt(GraphLines, 3)
                /\ GraphLines[GridRows + 3] = Fence
           ELSE /\ Len(GraphLines) = GridRows + 1
                /\ RowsAt(GraphLines, 2)
                /\ \A k \in 1..Len(GraphLines) : GraphLines[k] # Fence

----------------------------------------------------------------------------
(* A screenshot that fails inside the catch block.                         *)

\* The error that sent the run to the catch block: the failed check of
\* scrapePage, or the exception outputReport ended with.
OriginalError ==
    IF ~env.titleOk THEN "Failed to transition to top page."
    ELSE IF ~env.urlOk THEN "Failed to transition to article list page."
    ELSE report.error

\* C12: when the run has failed inside the try block and page.screenshot
\* fails too, the first error logged is the original one, the exit status
\* is not zero and the browser has been closed.
C12_ScreenshotFailureKeepsOriginalError ==
    (pc = "exited" /\ page = "open" /\ ~Reported /\ ~env.screenshotOk) =>
        /\ errorLog # <<>>
        /\ errorLog[1] = OriginalError
        /\ OriginalError # "page.screenshot failed"
        /\ exitCode # 0
        /\ browser = "closed"

C12_Witness ==
    /\ pc = "exited"
    /\ page = "open"
    /\ ~env.screenshotOk
    /\ screenshots = 0
    /\ errorLog = <<OriginalError, "page.screenshot failed">>
    /\ browser = "closed"
    /\ exitCode = 1

----------------------------------------------------------------------------
(* The list of the target month: which articles, in which order.           *)

\* How many elements of articles equal a.
Count(articles, a) ==
    Cardinality({k \in 1..Len(articles) : articles[k] = a})

\* The postedDate of a, taken from yyyy/MM/dd H:mm to yyyyMM, is the month
\* asked for.
InTargetMonth(a) ==
    targetMonth = changeMonthFormat(a.postedDate, Fmt_timestamp, "yyyyMM")

\* C13: the list of the target month holds every element of latestArticles
\* whose postedDate converts to targetMonth, as often as the listing holds
\* it, and nothing else.
C13_MonthListIsExactlyTheMonth ==
    Composed =>
        /\ \A k \in 1..Len(latestArticles) :
              Count(report.targetMonthArticles, latestArticles[k]) =
                  IF InTargetMonth(latestArticles[k])
                  THEN Count(latestArticles, latestArticles[k]) ELSE 0
        /\ \A k \in 1..Len(report.targetMonthArticles) :
              Count(latestArticles, report.targetMonthArticles[k]) > 0

C13_Witness ==
    /\ Composed
    /\ Len(latestArticles) = 2
    /\ Len(report.targetMonthArticles) = 1
    /\ \E k \in 1..2 : ~InTargetMonth(latestArticles[k])

\* The parsed timestamp of a, as minutes.
PostedKey(a) == DateKey(parseDate(a.postedDate, Fmt_timestamp))

\* C14: in the list of the target month every article is posted no later
\* than the one after it.
C14_MonthListAscending ==
    Composed =>
        \A k \in 1..(Len(report.targetMonthArticles) - 1) :
            PostedKey(report.targetMonthArticles[k])
                <= PostedKey(report.targetMonthArticles[k + 1])

\* C14 witness: a listing that holds a later article before an earlier one.
C14_Witness ==
    /\ Composed
    /\ Len(latestArticles) = 2
    /\ PostedKey(latestArticles[1]) > PostedKey(latestArticles[2])
    /\ report.targetMonthArticles = <<latestArticles[2], latestArticles[1]>>

----------------------------------------------------------------------------
(* The cells of the rendered grid.                                         *)

\* The words of each row (0-based) of the rendered grid: the weekday label
\* and the cells.
RenderedRows ==
    LET lines == GraphLines
    IN  [i \in 0..(Len(lines) - 4) |-> Split(lines[i + 3], " ")]

\* The weekday of the first day of the target month.
FirstWeekday == getDay(startOfMonth(parseDate(targetMonth, Fmt_yyyyMM)))

\* The days of the month on which an article of the list was posted.
DaysPosted ==
    {getDate(parseDate(report.targetMonthArticles[k].postedDate, Fmt_timestamp)) :
        k \in 1..Len(report.targetMonthArticles)}

\* The mark the cell of row i, column j (0-based) is to carry.
ExpectedMark(i, j) ==
    LET day == 7 * j - FirstWeekday + i + 1
    IN  IF day < 1 \/ day > LastDay THEN "-"
        ELSE IF day \in DaysPosted THEN "filled"
        ELSE "empty"

\* C15: the rendered grid has 7 rows of a label and 5 cells; the cell of
\* row i, column j carries "-" when day 7j - firstWeekday + i + 1 is outside
\* the month, the filled mark when an article was posted on that day, the
\* empty mark otherwise; without articles the title counts 0 and no cell is
\* filled.
C15_CellMarksFollowTheDay ==
    Composed =>
        LET rows == RenderedRows
        IN  /\ DOMAIN rows = 0..6
            /\ \A i \in 0..6 :
                  /\ Len(rows[i]) = 5 + 1
                  /\ \A j \in 0..4 : rows[i][j + 2] = <<ExpectedMark(i, j)>>
            /\ report.targetMonthArticles = <<>> =>
                  /\ SubSeq(GraphText, 1, 2) = <<"0", " ">>
                  /\ \A i \in 0..6, j \in 0..4 :
                        rows[i][j + 2] \in {<<"-">>, <<"empty">>}

\* C15 witness: a month of 31 days rendered with a filled cell, an empty
\* cell and a cell outside the month.
C15_Witness ==
    /\ Composed
    /\ LastDay = 31
    /\ LET rows == RenderedRows
       IN  /\ \E i \in 0..6, j \in 0..4 : rows[i][j + 2] = <<"filled">>
           /\ \E i \in 0..6, j \in 0..4 : rows[i][j + 2] = <<"empty">>
           /\ \E i \in 0..6, j \in 0..4 : rows[i][j + 2] = <<"-">>

\* The weekday (0 is Sunday) of day d of the target month.
WeekdayOf(d) == getDay([parseDate(targetMonth, Fmt_yyyyMM) EXCEPT !.day = d])

\* The cells of the grid, as pairs of a row and a column (0-based).
CellPositions == (0..(GridRows - 1)) \X (0..(GridCols - 1))

\* C19: row i of the rendered grid is labelled with weekday i, every cell of
\* row i that stands for a day of the month stands for a day that falls on
\* weekday i, and no two cells stand for the same day.
C19_RowsMatchWeekdays ==
    Composed =>
        LET days == GridDays(targetMonth)
            rows == RenderedRows
        IN  /\ rows[0][1] = <<"S", "u", "n">>
            /\ \A i \in 0..(GridRows - 1) : rows[i][1] = WEEKDAYS[i + 1]
            /\ \A c \in CellPositions :
                  days[c[1]][c[2]] \in 1..LastDay =>
                      WeekdayOf(days[c[1]][c[2]]) = c[1]
            /\ \A c, e \in CellPositions :
                  days[c[1]][c[2]] = days[e[1]][e[2]] => c = e

\* C19 witness: the grid of a month that begins in mid-week, with a day of
\* the month in its first and in its last column.
C19_Witness ==
    /\ Composed
    /\ FirstWeekday = 3
    /\ \E i \in 0..(GridRows - 1) : GridDays(targetMonth)[i][0] = 1
    /\ \E i \in 0..(GridRows - 1) : GridDays(targetMonth)[i][GridCols - 1] = LastDay

\* The value the histogram of generateContributionGraph holds for day d; 0
\* when the Map has no entry for it.
PointsOf(d) ==
    LET points == ContributionPoints(report.targetMonthArticles)
    IN  IF d \in DOMAIN points THEN points[d] ELSE 0

\* C16: the histogram holds, for every day of the month, the number of
\* articles of the list that were posted on that day.
C16_HistogramCountsArticles ==
    Composed =>
        \A d \in 1..LastDay :
            PointsOf(d) =
                Cardinality({k \in 1..Len(report.targetMonthArticles) :
                    getDate(parseDate(report.targetMonthArticles[k].postedDate,
                                      Fmt_timestamp)) = d})

----------------------------------------------------------------------------
(* The url of an extracted article.                                        *)

\* The path prefix of the base URL; empty when the base is the domain root.
BasePrefix == IF Pathname(url) = <<"/">> THEN <<>> ELSE Pathname(url)

\* h without the prefix, when h begins with it.
StripFront(h, prefix) ==
    IF prefix # <<>> /\ Len(h) >= Len(prefix)
       /\ SubSeq(h, 1, Len(prefix)) = prefix
    THEN SubSeq(h, Len(prefix) + 1, Len(h))
    ELSE h

\* The base URL without a slash at its end.
BaseStem == IF url[Len(url)] = "/" THEN SubSeq(url, 1, Len(url) - 1) ELSE url

\* The base URL followed by the path segments of h, the prefix taken from
\* the front of h and the query dropped.
ExpectedUrl(h) ==
    LET path == Split(StripFront(h, BasePrefix), "?")[1]
        NonEmpty(x) == x # <<>>
        segs == SelectSeq(Split(path, "/"), NonEmpty)
    IN  BaseStem \o Join([k \in 1..Len(segs) |-> <<"/">> \o segs[k]], <<>>)

\* How often search occurs in s.
Occurrences(s, search) ==
    Cardinality({i \in 1..Len(s) : MatchesAt(s, search, i)})

\* C17: the url of an extracted article is the base URL followed by the
\* path segments of the href, the base path taken once from the front of
\* the href and the query dropped; it holds no "?" and the base path at
\* most once.
C17_UrlIsBaseJoinedWithPath ==
    pc # "fetched" =>
        \A k \in 1..Len(latestCells) :
            latestCells[k].href # Null =>
                /\ latestArticles[k].url = ExpectedUrl(latestCells[k].href)
                /\ Occurrences(latestArticles[k].url, <<"?">>) = 0
                /\ BasePrefix # <<>> =>
                      Occurrences(latestArticles[k].url, BasePrefix) <= 1

----------------------------------------------------------------------------
(* The order of the collected records.                                     *)

\* Every record of articles that has resolved is the one extracted from the
\* cell at the same place of cells.
InListingOrder(articles, cells) ==
    \A k \in 1..Len(articles) :
        articles[k] # Unresolved =>
            /\ k <= Len(cells)
            /\ articles[k] = createArticleExtractor(url, cells[k])

\* Every cell of cells has its record in articles.
AllResolved(articles, cells) ==
    /\ Len(articles) = Len(cells)
    /\ \A k \in 1..Len(articles) : articles[k] # Unresolved

\* C18: in whatever order the extractions of a listing complete, record k
\* is the one extracted from cell k of that listing; the popular listing is
\* fetched only when every record of the latest listing has resolved, and
\* the report step sees both listings whole.
C18_RecordsKeepListingOrder ==
    /\ InListingOrder(latestArticles, latestCells)
    /\ InListingOrder(popularArticles, popularCells)
    /\ "popular" \in fetched =>
          /\ "latest" \in fetched
          /\ AllResolved(latestArticles, latestCells)
    /\ pc \in {"finally", "exited"} /\ Reported =>
          /\ AllResolved(latestArticles, latestCells)
          /\ AllResolved(popularArticles, popularCells)

\* C18 witness: of two different cells the second has resolved while the
\* first is still pending.
C18_Witness ==
    /\ pc = "extractLatest"
    /\ Len(latestCells) = 2
    /\ latestCells[1] # latestCells[2]
    /\ latestArticles[1] = Unresolved
    /\ latestArticles[2] = createArticleExtractor(url, latestCells[2])

=============================================================================
